---- MODULE Spec2Model ----
(***************************************************************************)
(* Model of app.py: a flash-card study tool.  One SQLite table            *)
(* (study_cards) behind one process-wide cached connection, a process-wide *)
(* cached copy of the table (load_all_data), and per-session state         *)
(* (st.session_state).  Every user interaction re-executes the script from *)
(* the top: the pass loads the cached table, selects the card, runs the    *)
(* handler of the clicked widget and, after st.rerun(), renders once more. *)
(***************************************************************************)
EXTENDS Integers, Sequences, FiniteSets, TLC

\* ------------------------------------------------------------------ bounds
MaxCards  == 2              \* largest id AUTOINCREMENT hands out in the model
MaxCount  == 1              \* cap on success / failure counters
MaxCursor == MaxCards       \* cap on card_index (one wrap of the largest set)
MaxBatch  == MaxCards       \* lines in one bulk-add text area

\* ------------------------------------------------------------- value sets
TOPIC_OPTIONS == {"Physics"}
SubNames      == {"Motion"}
Modes         == {"All", "Wrong", "Right", "Bookmarks"}
BulkLines     == {<<"q1", "a1">>, <<"q2", "a2">>, <<"junk">>}

NoCard == 0

\* ------------------------------------------------------------------ state
VARIABLES
  db,              \* committed rows of study_cards (set of records, ids unique)
  seq,             \* sqlite_sequence entry of study_cards (AUTOINCREMENT)
  cache,           \* DataFrame held by st.cache_data for load_all_data
  cacheValid,      \* FALSE after clear_data_cache() or ttl expiry
  active_topic, active_subtopic, page, card_index, show_answer, card_order,
  mode,            \* value of the "Study Focus:" radio
  confirm_delete,  \* set of <<t, s>> with confirm_delete_t_s = True
  op, result,      \* last operation (as far as Recorded names it), outcome
  shown,           \* id of the card rendered by the last pass (NoCard if none)
  reshuffled,      \* the last pass called np.random.permutation
  removed          \* counts init_db reported in the session starts that
                   \* followed one another with no other operation between

\* Two sessions on the one cached connection (used by SpecConc only)
VARIABLES
  pending,         \* the table as the connection sees it, uncommitted writes included
  spc,             \* per session: where its mark handler stands
  scard,           \* per session: `card`, the frame row its pass selected
  skind,           \* per session: "right" or "wrong", the button clicked
  sshow,           \* per session: show_answer
  nRight, nWrong   \* per card id: mark operations whose UPDATE has run

concVars == <<pending, spc, scard, skind, sshow, nRight, nWrong>>

\* What the last pass left on the page of the Process handler
VARIABLES
  batch,           \* lines of the text area the handler read (<<>>: not run)
  added, skipped   \* its two counters, as its messages report them

bulkVars == <<batch, added, skipped>>

\* What the learner has watched: the cards rendered at the successive values
\* of card_index while the filtered set and card_order stayed as they were
VARIABLE trail

\* Which of these two records a specification keeps ("bulk", "trail"); a
\* record that is not kept stays at its idle value
VARIABLE watch

vars == <<db, seq, cache, cacheValid, active_topic, active_subtopic, page,
          card_index, show_answer, card_order, mode, confirm_delete,
          op, result, shown, reshuffled, removed, concVars, bulkVars,
          trail, watch>>

\* ---------------------------------------------------------------- helpers
Max(a, b) == IF a > b THEN a ELSE b

Ids(tbl) == {c.id : c \in tbl}

MaxId(tbl) == IF tbl = {} THEN 0 ELSE CHOOSE i \in Ids(tbl) : \A j \in Ids(tbl) : j <= i

Row(tbl, i) == CHOOSE c \in tbl : c.id = i

\* rows in ascending id order (SELECT ... ORDER BY id; rowid scan order)
RECURSIVE SortById(_)
SortById(tbl) ==
  IF tbl = {} THEN <<>>
  ELSE LET lo == CHOOSE c \in tbl : \A d \in tbl : c.id <= d.id
       IN  <<lo>> \o SortById(tbl \ {lo})

Range(s) == {s[i] : i \in 1..Len(s)}

NewCard(i, t, s, k, v) ==
  [id |-> i, topic |-> t, subtopic |-> s, key |-> k, value |-> v,
   success |-> 0, failure |-> 0, bookmarked |-> 0]

\* ------------------------------------------------------------- card store
\* id that INSERT without an id column gets under AUTOINCREMENT
NextId(tbl, sq) == Max(sq, MaxId(tbl)) + 1

InsertNew(tbl, sq, t, s, k, v) == tbl \cup {NewCard(NextId(tbl, sq), t, s, k, v)}

CountKey(tbl, t, s, k) ==
  Cardinality({c \in tbl : c.topic = t /\ c.subtopic = s /\ c.key = k})

CountSub(tbl, t, s) ==
  Cardinality({c \in tbl : c.topic = t /\ c.subtopic = s})

\* mutant: the statement of got_right written with the other column
UpdateSuccess_Mut(tbl, i) ==
  {IF c.id = i THEN [c EXCEPT !.failure = @ + 1] ELSE c : c \in tbl}

UpdateSuccess(tbl, i) ==
  {IF c.id = i THEN [c EXCEPT !.success = @ + 1] ELSE c : c \in tbl}

\* mutant: the statement of got_wrong left as the copy of got_right's
UpdateFailure_Mut(tbl, i) ==
  {IF c.id = i THEN [c EXCEPT !.success = @ + 1] ELSE c : c \in tbl}

UpdateFailure(tbl, i) ==
  {IF c.id = i THEN [c EXCEPT !.failure = @ + 1] ELSE c : c \in tbl}

UpdateBookmark(tbl, i, v) ==
  {IF c.id = i THEN [c EXCEPT !.bookmarked = v] ELSE c : c \in tbl}

\* mutant: the DELETE written without its subtopic condition
DeleteSub_Mut(tbl, t, s) == {c \in tbl : c.topic # t}

DeleteSub(tbl, t, s) == {c \in tbl : ~(c.topic = t /\ c.subtopic = s)}

\* load_all_data(): the cached frame while it is valid, else a fresh read
Load == IF cacheValid THEN cache ELSE db

\* --------------------------------------------------------------- selector
SubDf(df, t, s) == SortById({c \in df : c.topic = t /\ c.subtopic = s})

IsWrong(c)      == c.failure > 0
IsRight(c)      == c.success > 0
IsBookmarked(c) == c.bookmarked = 1

FilteredDf(sub, m) ==
  IF m = "Wrong" THEN SelectSeq(sub, IsWrong)
  ELSE IF m = "Right" THEN SelectSeq(sub, IsRight)
  ELSE IF m = "Bookmarks" THEN SelectSeq(sub, IsBookmarked)
  ELSE sub

Filtered(df, t, s, m) == FilteredDf(SubDf(df, t, s), m)

\* card_order is None (modelled as <<>>: a generated order is never empty)
NoOrder == <<>>

\* mutant: the order regenerated in every pass
NeedsShuffle_Mut(co, n) == TRUE

NeedsShuffle(co, n) == co = NoOrder \/ Len(co) # n

\* mutant: n indices drawn with replacement
PermutationsOf_Mut(n) == [1..n -> 0..(n - 1)]

\* np.random.permutation(n).tolist(): every arrangement of 0..n-1
PermutationsOf(n) ==
  {p \in [1..n -> 0..(n-1)] : \A i, j \in 1..n : i # j => p[i] # p[j]}

\* orders the selector may leave in session_state for a filtered set of size n
OrdersFor(co, n) == IF NeedsShuffle(co, n) THEN PermutationsOf(n) ELSE {co}

\* mutant: a cursor past the end held at the last position
CardAt_Mut(f, co, ci) ==
  f[co[(IF ci >= Len(f) THEN Len(f) - 1 ELSE ci) + 1] + 1]

\* filtered_df.iloc[card_order[card_index % n]]
CardAt(f, co, ci) == f[co[(ci % Len(f)) + 1] + 1]

\* the radio is created only while the flash-card tab has a non-empty sub_df
RadioRendered(df, pg, t, s) == pg = "Study Mode" /\ SubDf(df, t, s) # <<>>

\* the flash card is rendered: Study Mode and a non-empty filtered set
CardRendered(df, pg, t, s, m) ==
  pg = "Study Mode" /\ Filtered(df, t, s, m) # <<>>

\* the ids of a frame's rows, in the frame's order
IdsOf(f) == [i \in 1..Len(f) |-> f[i].id]

\* the last MaxCards + 1 cards watched
Watched(tr) == IF Len(tr) > MaxCards + 1 THEN Tail(tr) ELSE tr

\* One complete script pass over the values the handler left behind: it
\* fixes the cache, the widget state that survives, the order and the card.
Render(dbN, seqN, dfN, atN, asN, pgN, ciN, saN, coN, mN, cdN, pre) ==
  LET mR == IF RadioRendered(dfN, pgN, atN, asN) THEN mN ELSE "All"
      f  == Filtered(dfN, atN, asN, mR)
      n  == Len(f)
  IN  /\ db' = dbN /\ seq' = seqN /\ pending' = dbN
      /\ UNCHANGED <<spc, scard, skind, sshow, nRight, nWrong>>
      /\ cache' = dfN /\ cacheValid' = TRUE
      /\ active_topic' = atN /\ active_subtopic' = asN /\ page' = pgN
      /\ card_index' = ciN /\ show_answer' = saN
      /\ mode' = mR /\ confirm_delete' = cdN
      /\ IF pgN = "Study Mode" /\ n > 0
         THEN \E o \in OrdersFor(coN, n) :
                 LET id   == CardAt(f, o, ciN).id
                     same == /\ trail # <<>> /\ ~pre /\ ~NeedsShuffle(coN, n)
                             /\ o = card_order
                             /\ IdsOf(f) = IdsOf(Filtered(cache, active_topic,
                                                          active_subtopic, mode))
                 IN  /\ card_order' = o
                     /\ reshuffled' = (pre \/ NeedsShuffle(coN, n))
                     /\ shown' = id
                     /\ trail' = IF "trail" \notin watch THEN <<>>
                                 ELSE IF same /\ ciN = card_index + 1
                                 THEN Watched(Append(trail, id))
                                 ELSE IF same /\ ciN = card_index THEN trail
                                 ELSE <<id>>
         ELSE /\ card_order' = coN
              /\ reshuffled' = pre
              /\ shown' = NoCard
              /\ trail' = <<>>

Sessions == {1, 2}

\* no second session, no handler in flight
ConcIdle ==
  /\ pending = db
  /\ spc = [s \in Sessions |-> "idle"]
  /\ scard = [s \in Sessions |-> NoCard]
  /\ skind = [s \in Sessions |-> "none"]
  /\ sshow = [s \in Sessions |-> FALSE]
  /\ nRight = [i \in 1..MaxCards |-> 0]
  /\ nWrong = [i \in 1..MaxCards |-> 0]

\* the Process handler has not run in the last pass
BulkIdle == batch = <<>> /\ added = 0 /\ skipped = 0

\* ------------------------------------------------------------------- Init
\* First pass of the first session on a new database file: init_db created
\* the empty table, the session defaults were set and the page rendered.
Init ==
  /\ db = {} /\ seq = 0
  /\ cache = {} /\ cacheValid = TRUE
  /\ active_topic = "Physics" /\ active_subtopic = "None"
  /\ page = "Study Mode" /\ card_index = 0 /\ show_answer = FALSE
  /\ card_order = NoOrder /\ mode = "All" /\ confirm_delete = {}
  /\ op = "other" /\ result = "ok"
  /\ shown = NoCard /\ reshuffled = FALSE /\ removed = <<>>
  /\ ConcIdle /\ BulkIdle /\ trail = <<>> /\ watch = {}

\* ---------------------------------------------------- the pass of a click
\* The frame, filtered set and card that the pass computes before it reaches
\* the widgets of the main area (lines 318-350).
Df1 == Load

F1 == Filtered(Df1, active_topic, active_subtopic, mode)

CardLive == CardRendered(Df1, page, active_topic, active_subtopic, mode)

\* orders card_order may hold once line 346 has run in this pass
PreOrders == IF CardLive THEN OrdersFor(card_order, Len(F1)) ELSE {card_order}

PreShuffled == CardLive /\ NeedsShuffle(card_order, Len(F1))

\* (topic, subtopic) pairs listed in "My Library"
Units(df) == {<<c.topic, c.subtopic>> : c \in df}

\* operations the properties below tell apart; any other is "other"
Recorded == {"markCorrect", "markIncorrect", "bulkCreate", "saveChanges",
             "saveAll", "deleteBySubtopic", "resetCounters",
             "toggleBookmark"}

Ghost(o, r) ==
  /\ op' = (IF o \in Recorded THEN o ELSE "other")
  /\ result' = r /\ removed' = <<>>
  /\ o # "bulkCreate" => (batch' = <<>> /\ added' = 0 /\ skipped' = 0)
  /\ watch' = watch

\* a pass with no handler: a stale click, a text input, a browser refresh
Rerender ==
  /\ Render(db, seq, Df1, active_topic, active_subtopic, page, card_index,
            show_answer, card_order, mode, confirm_delete, FALSE)
  /\ Ghost("render", "ok")

\* st.cache_data(ttl=300): the cached frame is dropped when it is 300 s old
\* (a drop of a frame equal to the table reloads the same frame)
CacheExpire ==
  /\ cacheValid /\ cache # db
  /\ cacheValid' = FALSE
  /\ Ghost("expire", "ok")
  /\ UNCHANGED <<db, seq, cache, active_topic, active_subtopic, page,
                 card_index, show_answer, card_order, mode, confirm_delete,
                 shown, reshuffled, concVars, trail>>

\* ------------------------------------------------------------ flash card
\* mutant: a pass that finds the filtered set empty rewinds the cursor
ChangeMode_Mut(m) ==
  /\ RadioRendered(cache, page, active_topic, active_subtopic)
  /\ m # mode
  /\ Render(db, seq, Df1, active_topic, active_subtopic, page,
            IF Filtered(Df1, active_topic, active_subtopic, m) = <<>>
            THEN 0 ELSE card_index,
            show_answer, card_order, m, confirm_delete, FALSE)
  /\ Ghost("mode", "ok")

ChangeMode(m) ==
  /\ RadioRendered(cache, page, active_topic, active_subtopic)
  /\ m # mode
  /\ Render(db, seq, Df1, active_topic, active_subtopic, page, card_index,
            show_answer, card_order, m, confirm_delete, FALSE)
  /\ Ghost("mode", "ok")

Reveal ==
  /\ shown # NoCard /\ ~show_answer /\ CardLive
  /\ \E o1 \in PreOrders :
       /\ Render(db, seq, Df1, active_topic, active_subtopic, page, card_index,
                 TRUE, o1, mode, confirm_delete, PreShuffled)
       /\ Ghost("reveal", "ok")

\* the four buttons exist only after the reveal, and only in a pass that
\* renders a card
ButtonsLive == shown # NoCard /\ show_answer /\ CardLive

GotRight ==
  /\ ButtonsLive /\ card_index < MaxCursor
  /\ \E o1 \in PreOrders :
       LET card == CardAt(F1, o1, card_index)
           db2  == UpdateSuccess(db, card.id)
       IN  /\ \A c \in db2 : c.success <= MaxCount
           /\ Render(db2, seq, db2, active_topic, active_subtopic, page,
                     card_index + 1, FALSE, o1, mode, confirm_delete,
                     PreShuffled)
           /\ Ghost("markCorrect", "ok")

GotWrong ==
  /\ ButtonsLive /\ card_index < MaxCursor
  /\ \E o1 \in PreOrders :
       LET card == CardAt(F1, o1, card_index)
           db2  == UpdateFailure(db, card.id)
       IN  /\ \A c \in db2 : c.failure <= MaxCount
           /\ Render(db2, seq, db2, active_topic, active_subtopic, page,
                     card_index + 1, FALSE, o1, mode, confirm_delete,
                     PreShuffled)
           /\ Ghost("markIncorrect", "ok")

BookmarkAns ==
  /\ ButtonsLive
  /\ \E o1 \in PreOrders :
       LET card    == CardAt(F1, o1, card_index)
           new_val == IF card.bookmarked # 0 THEN 0 ELSE 1
           db2     == UpdateBookmark(db, card.id, new_val)
       IN  /\ Render(db2, seq, db2, active_topic, active_subtopic, page,
                     card_index, show_answer, o1, mode, confirm_delete,
                     PreShuffled)
           /\ Ghost("toggleBookmark", "ok")

SkipAns ==
  /\ ButtonsLive /\ card_index < MaxCursor
  /\ \E o1 \in PreOrders :
       /\ Render(db, seq, Df1, active_topic, active_subtopic, page,
                 card_index + 1, FALSE, o1, mode, confirm_delete, PreShuffled)
       /\ Ghost("skip", "ok")

\* ---------------------------------------------------------------- sidebar
GoPage(p) ==
  /\ Render(db, seq, Df1, active_topic, active_subtopic, p, card_index,
            show_answer, card_order, mode, confirm_delete, FALSE)
  /\ Ghost("page", "ok")

CreateSubtopic(t, s) ==
  /\ page = "Study Mode"
  /\ IF CountSub(db, t, s) > 0
     THEN /\ Render(db, seq, Df1, active_topic, active_subtopic, page,
                    card_index, show_answer, card_order, mode, confirm_delete,
                    FALSE)
          /\ Ghost("createSubtopic", "ok")
     ELSE /\ NextId(db, seq) <= MaxCards
          /\ LET db2 == InsertNew(db, seq, t, s, "Definition", "Answer")
             IN  Render(db2, MaxId(db2), db2, t, s, page, card_index,
                        show_answer, card_order, mode, confirm_delete, FALSE)
          /\ Ghost("createSubtopic", "ok")

NavSubtopic(t, s) ==
  /\ page = "Study Mode"
  /\ <<t, s>> \in Units(cache) \cap Units(Df1)
  /\ Render(db, seq, Df1, t, s, page, 0, FALSE, NoOrder, mode, confirm_delete,
            FALSE)
  /\ Ghost("nav", "ok")

\* "Yes, Delete" is offered once the trash button set the confirm flag
DeleteClick(t, s) ==
  /\ page = "Study Mode"
  /\ <<t, s>> \in Units(cache) \cap Units(Df1)
  /\ <<t, s>> \notin confirm_delete
  /\ Render(db, seq, Df1, active_topic, active_subtopic, page, card_index,
            show_answer, card_order, mode, confirm_delete \cup {<<t, s>>},
            FALSE)
  /\ Ghost("deleteAsk", "ok")

ConfirmYes(t, s) ==
  /\ page = "Study Mode"
  /\ <<t, s>> \in Units(cache) \cap Units(Df1)
  /\ <<t, s>> \in confirm_delete
  /\ LET db2 == DeleteSub(db, t, s)
     IN  Render(db2, seq, db2, active_topic, active_subtopic, page, card_index,
                show_answer, card_order, mode, confirm_delete \ {<<t, s>>},
                FALSE)
  /\ Ghost("deleteBySubtopic", "ok")

ConfirmNo(t, s) ==
  /\ page = "Study Mode"
  /\ <<t, s>> \in Units(cache) \cap Units(Df1)
  /\ <<t, s>> \in confirm_delete
  /\ Render(db, seq, Df1, active_topic, active_subtopic, page, card_index,
            show_answer, card_order, mode, confirm_delete \ {<<t, s>>}, FALSE)
  /\ Ghost("deleteCancel", "ok")

\* ------------------------------------------------------------ Add Content
\* the text area, one element per line: <<q, a>> is "q -!- a", any other
\* length is a line without exactly one separator
Batches == UNION {[1..n -> BulkLines] : n \in 1..MaxBatch}

\* mutant: the existence check reads the table as committed before the
\* batch, so it does not see the rows the batch itself has inserted
RECURSIVE BulkApply_Mut(_, _, _, _, _)
BulkApply_Mut(st, lines, t, s, k) ==
  IF k > Len(lines) THEN st
  ELSE LET line == lines[k]
       IN  IF Len(line) # 2 THEN BulkApply_Mut(st, lines, t, s, k + 1)
           ELSE IF CountKey(db, t, s, line[1]) > 0
                THEN BulkApply_Mut([st EXCEPT !.skipped = @ + 1], lines, t, s,
                                   k + 1)
                ELSE LET tbl2 == InsertNew(st.tbl, st.seq, t, s, line[1], line[2])
                     IN  BulkApply_Mut([tbl |-> tbl2, seq |-> MaxId(tbl2),
                                        added |-> st.added + 1,
                                        skipped |-> st.skipped],
                                       lines, t, s, k + 1)

\* the loop of the Process handler over the lines, inside one transaction
RECURSIVE BulkApply(_, _, _, _, _)
BulkApply(st, lines, t, s, k) ==
  IF k > Len(lines) THEN st
  ELSE LET line == lines[k]
       IN  IF Len(line) # 2 THEN BulkApply(st, lines, t, s, k + 1)
           ELSE IF CountKey(st.tbl, t, s, line[1]) > 0
                THEN BulkApply([st EXCEPT !.skipped = @ + 1], lines, t, s, k + 1)
                ELSE LET tbl2 == InsertNew(st.tbl, st.seq, t, s, line[1], line[2])
                     IN  BulkApply([tbl |-> tbl2, seq |-> MaxId(tbl2),
                                    added |-> st.added + 1,
                                    skipped |-> st.skipped],
                                   lines, t, s, k + 1)

BulkAdd(lines) ==
  /\ page = "Study Mode"
  /\ \E o1 \in PreOrders :
       LET st == BulkApply([tbl |-> db, seq |-> seq, added |-> 0, skipped |-> 0],
                           lines, active_topic, active_subtopic, 1)
       IN  /\ st.seq <= MaxCards
           /\ Render(st.tbl, st.seq, st.tbl, active_topic, active_subtopic,
                     page, card_index, show_answer, o1, mode, confirm_delete,
                     PreShuffled)
           /\ Ghost("bulkCreate", "ok")
           /\ IF "bulk" \in watch
              THEN batch' = lines /\ added' = st.added /\ skipped' = st.skipped
              ELSE batch' = <<>> /\ added' = 0 /\ skipped' = 0

\* The Process handler run by another session (a second browser tab) whose
\* active subtopic is (t, s): it writes the table and clears the cache both
\* sessions share, and its own rerun caches the table it reads; nothing of
\* this session's session_state or page changes until its next pass.
OtherBulkAdd(t, s, lines) ==
  /\ <<t, s>> \in {<<"Physics", "None">>} \cup Units(db)
  /\ LET st == BulkApply([tbl |-> db, seq |-> seq, added |-> 0, skipped |-> 0],
                         lines, t, s, 1)
     IN  /\ st.seq <= MaxCards
         /\ db' = st.tbl /\ seq' = st.seq /\ pending' = st.tbl
         /\ cache' = st.tbl /\ cacheValid' = TRUE
  /\ Ghost("otherSession", "ok")
  /\ UNCHANGED <<active_topic, active_subtopic, page, card_index, show_answer,
                 card_order, mode, confirm_delete, shown, reshuffled, trail,
                 spc, scard, skind, sshow, nRight, nWrong>>

\* ------------------------------------------------- Local Data / Overview
\* What the learner can leave in st.data_editor for a frame: the frame, a
\* row deleted, or one cell of one row changed: its id to the id of another
\* stored card, its key to the key of another row, its success to 0.
DropRow(fr, i) == SubSeq(fr, 1, i - 1) \o SubSeq(fr, i + 1, Len(fr))

Edited(fr) ==
  {fr}
  \cup {DropRow(fr, i) : i \in 1..Len(fr)}
  \cup UNION {{[fr EXCEPT ![i].id = j] : j \in Ids(db) \ {fr[i].id}} : i \in 1..Len(fr)}
  \cup {[fr EXCEPT ![i].key = fr[j].key] : i \in 1..Len(fr), j \in 1..Len(fr)}
  \cup {[fr EXCEPT ![i].success = 0] : i \in 1..Len(fr)}

\* DataFrame.to_sql(if_exists='append'): the rows are inserted with their
\* ids; a row whose id is already in the table raises IntegrityError
RECURSIVE ToSql(_, _, _)
ToSql(tbl, rows, k) ==
  IF k > Len(rows) THEN [ok |-> TRUE, tbl |-> tbl]
  ELSE IF rows[k].id \in Ids(tbl) THEN [ok |-> FALSE, tbl |-> tbl]
       ELSE ToSql(tbl \cup {rows[k]}, rows, k + 1)

\* "Save Changes": DELETE opens the transaction, to_sql commits it or rolls
\* all of it back
SaveChangesStore(tbl, t, s, edited) ==
  LET r == ToSql(DeleteSub(tbl, t, s), edited, 1)
  IN  IF r.ok THEN [ok |-> TRUE, tbl |-> r.tbl] ELSE [ok |-> FALSE, tbl |-> tbl]

SaveChanges ==
  /\ RadioRendered(cache, page, active_topic, active_subtopic)
  /\ RadioRendered(Df1, page, active_topic, active_subtopic)
  /\ \E edited \in Edited(SubDf(Df1, active_topic, active_subtopic)) :
       LET r == SaveChangesStore(db, active_topic, active_subtopic, edited)
       IN  IF r.ok
           THEN \E o1 \in PreOrders :
                  /\ Render(r.tbl, Max(seq, MaxId(r.tbl)), r.tbl, active_topic,
                            active_subtopic, page, card_index, show_answer, o1,
                            mode, confirm_delete, PreShuffled)
                  /\ Ghost("saveChanges", "ok")
           ELSE /\ Render(db, seq, Df1, active_topic, active_subtopic, page,
                          card_index, show_answer, card_order, mode,
                          confirm_delete, FALSE)
                /\ Ghost("saveChanges", "error")

ResetCounters(tbl, t, s) ==
  {IF c.topic = t /\ c.subtopic = s
   THEN [c EXCEPT !.success = 0, !.failure = 0] ELSE c : c \in tbl}

ResetStats ==
  /\ RadioRendered(cache, page, active_topic, active_subtopic)
  /\ RadioRendered(Df1, page, active_topic, active_subtopic)
  /\ \E o1 \in PreOrders :
       LET db2 == ResetCounters(db, active_topic, active_subtopic)
       IN  /\ Render(db2, seq, db2, active_topic, active_subtopic, page,
                     card_index, show_answer, o1, mode, confirm_delete,
                     PreShuffled)
           /\ Ghost("resetCounters", "ok")

\* -------------------------------------------------------- Master Database
\* "Save All": DROP TABLE and CREATE TABLE run outside any transaction
\* (sqlite3 opens one only before INSERT/UPDATE/DELETE/REPLACE), so each is
\* committed as it runs; to_sql then commits its rows or rolls them back.
SaveAllStore(tbl, m_edited) ==
  LET r == ToSql({}, m_edited, 1)
  IN  IF r.ok THEN [ok |-> TRUE, tbl |-> r.tbl] ELSE [ok |-> FALSE, tbl |-> {}]

SaveAll ==
  /\ page = "Master Database" /\ cache # {} /\ Df1 # {}
  /\ \E m_edited \in Edited(SortById(Df1)) :
       LET r == SaveAllStore(db, m_edited)
       IN  IF r.ok
           THEN /\ Render(r.tbl, MaxId(r.tbl), r.tbl, active_topic,
                          active_subtopic, page, card_index, show_answer,
                          card_order, mode, confirm_delete, FALSE)
                /\ Ghost("saveAll", "ok")
           ELSE /\ Render(r.tbl, 0, Df1, active_topic, active_subtopic, page,
                          card_index, show_answer, card_order, mode,
                          confirm_delete, FALSE)
                /\ Ghost("saveAll", "error")

\* ---------------------------------------------------------------- init_db
KeyOf(c) == <<c.topic, c.subtopic, c.key>>

\* mutant: keep='last'
Duplicated_Mut(df) ==
  [i \in 1..Len(df) |->
     \E j \in (i + 1)..Len(df) : KeyOf(df[j]) = KeyOf(df[i])]

\* df.duplicated(subset=['topic','subtopic','key'], keep='first')
Duplicated(df) ==
  [i \in 1..Len(df) |-> \E j \in 1..(i - 1) : KeyOf(df[j]) = KeyOf(df[i])]

\* mutant: only the first duplicate id reaches the DELETE
DupIds_Mut(tbl) ==
  LET df == SortById(tbl)
      duplicates == Duplicated(df)
      all == {df[i].id : i \in {k \in 1..Len(df) : duplicates[k]}}
  IN  IF all = {} THEN {} ELSE {CHOOSE i \in all : \A j \in all : i <= j}

\* ids init_db deletes: df[duplicates]['id'] over "SELECT * FROM study_cards"
DupIds(tbl) ==
  LET df == SortById(tbl)
      duplicates == Duplicated(df)
  IN  {df[i].id : i \in {k \in 1..Len(df) : duplicates[k]}}

InitDbStore(tbl) == {c \in tbl : c.id \notin DupIds(tbl)}

\* A new browser session: session_state is empty, so init_db runs its
\* clean-up and commits it (it does not clear the data cache), the defaults
\* are set, and the page renders from load_all_data().
NewSession ==
  LET db2 == InitDbStore(db)
      df  == IF cacheValid THEN cache ELSE db2
  IN  /\ Render(db2, seq, df, "Physics", "None", "Study Mode", 0, FALSE,
                NoOrder, "All", {}, FALSE)
      /\ op' = "session" /\ result' = "ok"
      /\ batch' = <<>> /\ added' = 0 /\ skipped' = 0 /\ watch' = watch
      /\ removed' = (IF Len(removed) = 2 THEN <<removed[2]>> ELSE removed)
                    \o <<Cardinality(DupIds(db))>>

\* ---------------------------------------------------------- specifications
\* The study session: the library and the flash-card tab of one session.
Next ==
  \/ \E t \in TOPIC_OPTIONS, s \in SubNames : CreateSubtopic(t, s)
  \/ \E lines \in Batches : BulkAdd(lines)
  \/ \E t \in TOPIC_OPTIONS, s \in SubNames \cup {"None"} : NavSubtopic(t, s)
  \/ \E m \in Modes : ChangeMode(m)
  \/ Reveal
  \/ GotRight
  \/ GotWrong
  \/ BookmarkAns
  \/ SkipAns
  \/ Rerender

Spec == Init /\ [][Next]_vars

\* The card store under every handler that writes it, with the passes that
\* read a frame the table no longer matches.
NextStore ==
  \/ \E t \in TOPIC_OPTIONS, s \in SubNames : CreateSubtopic(t, s)
  \/ \E lines \in Batches : BulkAdd(lines)
  \/ \E p \in {"Study Mode", "Master Database"} : GoPage(p)
  \/ Reveal
  \/ GotRight
  \/ GotWrong
  \/ SaveChanges
  \/ ResetStats
  \/ SaveAll
  \/ CacheExpire
  \/ Rerender

SpecStore == Init /\ [][NextStore]_vars

\* The library of the sidebar: subtopics created, filled, opened and deleted.
NextLibrary ==
  \/ \E t \in TOPIC_OPTIONS, s \in SubNames : CreateSubtopic(t, s)
  \/ \E lines \in Batches : BulkAdd(lines)
  \/ \E t \in TOPIC_OPTIONS, s \in SubNames \cup {"None"} : NavSubtopic(t, s)
  \/ \E t \in TOPIC_OPTIONS, s \in SubNames \cup {"None"} : DeleteClick(t, s)
  \/ \E t \in TOPIC_OPTIONS, s \in SubNames \cup {"None"} : ConfirmYes(t, s)
  \/ \E t \in TOPIC_OPTIONS, s \in SubNames \cup {"None"} : ConfirmNo(t, s)

\* Init, with the record of the Process handler kept
InitLibrary ==
  /\ db = {} /\ seq = 0
  /\ cache = {} /\ cacheValid = TRUE
  /\ active_topic = "Physics" /\ active_subtopic = "None"
  /\ page = "Study Mode" /\ card_index = 0 /\ show_answer = FALSE
  /\ card_order = NoOrder /\ mode = "All" /\ confirm_delete = {}
  /\ op = "other" /\ result = "ok"
  /\ shown = NoCard /\ reshuffled = FALSE /\ removed = <<>>
  /\ ConcIdle /\ BulkIdle /\ trail = <<>> /\ watch = {"bulk"}

SpecLibrary == InitLibrary /\ [][NextLibrary]_vars

\* The flash cards of one subtopic: cards added, answered, skipped and
\* bookmarked under every focus, with the record of the cards watched kept.
InitWrap ==
  /\ db = {} /\ seq = 0
  /\ cache = {} /\ cacheValid = TRUE
  /\ active_topic = "Physics" /\ active_subtopic = "None"
  /\ page = "Study Mode" /\ card_index = 0 /\ show_answer = FALSE
  /\ card_order = NoOrder /\ mode = "All" /\ confirm_delete = {}
  /\ op = "other" /\ result = "ok"
  /\ shown = NoCard /\ reshuffled = FALSE /\ removed = <<>>
  /\ ConcIdle /\ BulkIdle /\ trail = <<>> /\ watch = {"trail"}

NextWrap ==
  \/ \E lines \in Batches : BulkAdd(lines)
  \/ \E m \in Modes : ChangeMode(m)
  \/ Reveal
  \/ GotRight
  \/ GotWrong
  \/ BookmarkAns
  \/ SkipAns
  \/ Rerender

SpecWrap == InitWrap /\ [][NextWrap]_vars

\* One session at its flash cards while a second session adds cards.
NextShared ==
  \/ \E lines \in Batches : BulkAdd(lines)
  \/ \E t \in TOPIC_OPTIONS, s \in SubNames \cup {"None"}, lines \in Batches :
        OtherBulkAdd(t, s, lines)
  \/ Reveal
  \/ GotRight
  \/ GotWrong
  \/ BookmarkAns
  \/ SkipAns
  \/ Rerender

SpecShared == Init /\ [][NextShared]_vars

\* The duplicate clean-up of init_db on any table a database file may hold:
\* up to DedupIds rows, any of them sharing (topic, subtopic, key).
DedupIds == 3

DedupRows(i) ==
  {[id |-> i, topic |-> "Physics", subtopic |-> s, key |-> k, value |-> v,
    success |-> 0, failure |-> 0, bookmarked |-> 0] :
     s \in {"None", "Motion"}, k \in {"q1", "q2"}, v \in {"a1", "a2"}}

RECURSIVE Stores(_)
Stores(n) ==
  IF n = 0 THEN {{}}
  ELSE LET rest == Stores(n - 1)
       IN  rest \cup {st \cup {c} : st \in rest, c \in DedupRows(n)}

\* the process has just started on an existing file: nothing cached yet
InitDedup ==
  /\ db \in Stores(DedupIds) /\ seq = MaxId(db)
  /\ cache = {} /\ cacheValid = FALSE
  /\ active_topic = "Physics" /\ active_subtopic = "None"
  /\ page = "Study Mode" /\ card_index = 0 /\ show_answer = FALSE
  /\ card_order = NoOrder /\ mode = "All" /\ confirm_delete = {}
  /\ op = "other" /\ result = "ok"
  /\ shown = NoCard /\ reshuffled = FALSE /\ removed = <<>>
  /\ ConcIdle /\ BulkIdle /\ trail = <<>> /\ watch = {}

NextDedup == NewSession

SpecDedup == InitDedup /\ [][NextDedup]_vars

\* ------------------------------------------------ two sessions, one table
\* get_connection() is cached for the process (check_same_thread=False), so
\* the script threads of all sessions send their statements to one
\* connection and one transaction; load_all_data() is cached for the process
\* too.  A mark handler is four steps a second session can come between: the
\* pass that selects `card`, the UPDATE, the commit, and the clearing of the
\* cache with the session's own bookkeeping.  A session may hold any
\* card_order and card_index, so its pass may select any card of the frame.
ConcOps == 2   \* marks of one kind on one card

ConcStore ==
  {NewCard(1, "Physics", "Motion", "Definition", "Answer"),
   [NewCard(2, "Physics", "Motion", "q1", "a1") EXCEPT !.success = 1]}

sessionVars == <<seq, active_topic, active_subtopic, page, card_index,
                 show_answer, card_order, mode, confirm_delete, op, result,
                 shown, reshuffled, removed, bulkVars, trail, watch>>

InitConc ==
  /\ db = ConcStore /\ seq = 2
  /\ cache = ConcStore /\ cacheValid = TRUE
  /\ active_topic = "Physics" /\ active_subtopic = "Motion"
  /\ page = "Study Mode" /\ card_index = 0 /\ show_answer = FALSE
  /\ card_order = NoOrder /\ mode = "All" /\ confirm_delete = {}
  /\ op = "other" /\ result = "ok"
  /\ shown = NoCard /\ reshuffled = FALSE /\ removed = <<>>
  /\ ConcIdle /\ BulkIdle /\ trail = <<>> /\ watch = {}

\* mutant: the new count computed from the row the pass had loaded
ExecMark_Mut(tbl, card, kind) ==
  {IF c.id = card.id
   THEN (IF kind = "right" THEN [c EXCEPT !.success = card.success + 1]
         ELSE [c EXCEPT !.failure = card.failure + 1])
   ELSE c : c \in tbl}

\* the statement of the got_right / got_wrong handler for the row `card`
ExecMark(tbl, card, kind) ==
  IF kind = "right" THEN UpdateSuccess(tbl, card.id)
  ELSE UpdateFailure(tbl, card.id)

InFlight(i, kind) ==
  Cardinality({t \in Sessions :
                 spc[t] = "execute" /\ scard[t].id = i /\ skind[t] = kind})

Performed(i, kind) == IF kind = "right" THEN nRight[i] ELSE nWrong[i]

ConcReveal(s) ==
  /\ spc[s] = "idle" /\ ~sshow[s]
  /\ sshow' = [sshow EXCEPT ![s] = TRUE]
  /\ UNCHANGED <<db, cache, cacheValid, pending, spc, scard, skind, nRight,
                 nWrong, sessionVars>>

\* the pass of the click, up to the button: load_all_data() and the selection
ConcClick(s, kind) ==
  /\ spc[s] = "idle" /\ sshow[s]
  /\ LET df == IF cacheValid THEN cache ELSE pending
     IN  /\ cache' = df /\ cacheValid' = TRUE
         /\ \E c \in df :
              /\ Performed(c.id, kind) + InFlight(c.id, kind) < ConcOps
              /\ scard' = [scard EXCEPT ![s] = c]
  /\ skind' = [skind EXCEPT ![s] = kind]
  /\ spc' = [spc EXCEPT ![s] = "execute"]
  /\ UNCHANGED <<db, pending, sshow, nRight, nWrong, sessionVars>>

\* cursor.execute("UPDATE ... WHERE id=?")
ConcExecute(s) ==
  /\ spc[s] = "execute"
  /\ pending' = ExecMark(pending, scard[s], skind[s])
  /\ nRight' = IF skind[s] = "right"
               THEN [nRight EXCEPT ![scard[s].id] = @ + 1] ELSE nRight
  /\ nWrong' = IF skind[s] = "wrong"
               THEN [nWrong EXCEPT ![scard[s].id] = @ + 1] ELSE nWrong
  /\ spc' = [spc EXCEPT ![s] = "commit"]
  /\ UNCHANGED <<db, cache, cacheValid, scard, skind, sshow, sessionVars>>

\* conn.commit() on leaving get_db_cursor(): everything the connection holds
ConcCommit(s) ==
  /\ spc[s] = "commit"
  /\ db' = pending
  /\ spc' = [spc EXCEPT ![s] = "clear"]
  /\ UNCHANGED <<cache, cacheValid, pending, scard, skind, sshow, nRight,
                 nWrong, sessionVars>>

\* clear_data_cache(), show_answer = False, st.rerun(): the next pass of the
\* session reads the table through the connection
ConcFinish(s) ==
  /\ spc[s] = "clear"
  /\ cache' = pending /\ cacheValid' = TRUE
  /\ sshow' = [sshow EXCEPT ![s] = FALSE]
  /\ spc' = [spc EXCEPT ![s] = "idle"]
  /\ scard' = [scard EXCEPT ![s] = NoCard]
  /\ UNCHANGED <<db, pending, skind, nRight, nWrong, sessionVars>>

NextConc ==
  \/ \E s \in Sessions : ConcReveal(s)
  \/ \E s \in Sessions, kind \in {"right", "wrong"} : ConcClick(s, kind)
  \/ \E s \in Sessions : ConcExecute(s)
  \/ \E s \in Sessions : ConcCommit(s)
  \/ \E s \in Sessions : ConcFinish(s)

SpecConc == InitConc /\ [][NextConc]_vars

\* ================================================================ properties
\* the filtered set the last pass selected from
FilteredNow == Filtered(cache, active_topic, active_subtopic, mode)

\* ---------------------------------------------------------------------- C1
\* C1 (as claimed): markIncorrect on the displayed card adds exactly 1 to its
\* failure count, leaves card_index unchanged and leaves show_answer true.
C1_Claimed ==
  [][op' = "markIncorrect" =>
       /\ Row(db', shown).failure = Row(db, shown).failure + 1
       /\ card_index' = card_index
       /\ show_answer']_vars

\* C1 (amended): markIncorrect on the displayed card adds exactly 1 to its
\* failure count, leaves its success count and every other card unchanged,
\* advances card_index by exactly 1 and sets show_answer to false.
C1_Amended ==
  [][op' = "markIncorrect" =>
       /\ Row(db', shown).failure = Row(db, shown).failure + 1
       /\ Row(db', shown).success = Row(db, shown).success
       /\ \A c \in db : c.id # shown => c \in db'
       /\ card_index' = card_index + 1
       /\ ~show_answer']_vars

C1_Witness ==
  /\ op = "markIncorrect" /\ card_index = 1 /\ ~show_answer
  /\ \E c \in db : c.failure = 1 /\ c.success = 0

\* ---------------------------------------------------------------------- C2
\* C2: markCorrect on the displayed card adds exactly 1 to its success count,
\* leaves its failure count unchanged, advances card_index by exactly 1 and
\* sets show_answer to false.
C2_MarkCorrect ==
  [][op' = "markCorrect" =>
       /\ Row(db', shown).success = Row(db, shown).success + 1
       /\ Row(db', shown).failure = Row(db, shown).failure
       /\ card_index' = card_index + 1
       /\ ~show_answer']_vars

C2_Witness ==
  /\ op = "markCorrect" /\ card_index = 1 /\ ~show_answer
  /\ \E c \in db : c.success = 1 /\ c.failure = 0

\* ---------------------------------------------------------------------- C3
\* C3 (as claimed): whenever a step of the session (reveal, mark, skip,
\* bookmark, change of mode, navigation, subtopic creation) replaces the
\* displayed card by a different card, show_answer is false after the step.
C3_Claimed ==
  [][(/\ op' # "bulkCreate"
      /\ shown # NoCard /\ shown' # NoCard /\ shown' # shown) => ~show_answer']_vars

\* ---------------------------------------------------------------------- C4
\* C4 (as claimed): every change of the filter mode and every change of the
\* filtered set's size regenerates card_order before the next card is
\* selected, also between two filtered sets of equal size.
C4_Claimed ==
  [][(/\ shown' # NoCard
      /\ \/ mode' # mode
         \/ Len(FilteredNow') # Len(FilteredNow)) => reshuffled']_vars

\* C4 (amended): card_order is regenerated whenever a card is selected from a
\* filtered set whose size differs from the length of the card_order held
\* (none held counts as length 0); a change of the filter mode that selects
\* from a set of the same size keeps the card_order it had.
C4_Amended ==
  [][/\ (shown' # NoCard /\ Len(card_order) # Len(FilteredNow')) => reshuffled'
     /\ (mode' # mode /\ shown' # NoCard /\ Len(card_order) = Len(FilteredNow'))
          => (~reshuffled' /\ card_order' = card_order)]_vars

C4_Witness ==
  /\ mode = "Wrong" /\ shown # NoCard /\ ~reshuffled
  /\ Len(card_order) = 2 /\ Len(FilteredNow) = 2
  /\ Len(SubDf(cache, active_topic, active_subtopic)) = 2

\* ---------------------------------------------------------------------- C5
\* C5: whenever a card is selected from a filtered set of size n, card_order
\* has length n and holds every index of 0..n-1, so the entry at
\* card_index mod n is an index into the filtered set.
C5_Permutation ==
  shown # NoCard =>
    LET n == Len(FilteredNow)
    IN  /\ n > 0 /\ Len(card_order) = n
        /\ Range(card_order) = 0..(n - 1)
        /\ card_order[(card_index % n) + 1] + 1 \in DOMAIN FilteredNow
        /\ shown = FilteredNow[card_order[(card_index % n) + 1] + 1].id

C5_Witness ==
  /\ shown # NoCard /\ Len(FilteredNow) = 2
  /\ card_order = <<1, 0>> /\ card_index = 2

\* ---------------------------------------------------------------------- C6
\* C6: a pass that finds the filtered set of the active subtopic empty shows
\* no card; from a state that shows no card no step changes a counter or a
\* bookmark of a stored card or advances card_index; and a change of the
\* filter mode that ends with an empty selection leaves card_index unchanged.
C6_EmptySelection ==
  [][/\ FilteredNow' = <<>> => shown' = NoCard
     /\ shown = NoCard => (db \subseteq db' /\ card_index' \in {card_index, 0})
     /\ (mode' # mode /\ shown' = NoCard) => card_index' = card_index]_vars

C6_Witness ==
  /\ mode = "Bookmarks" /\ shown = NoCard /\ card_index > 0
  /\ SubDf(cache, active_topic, active_subtopic) # <<>>
  /\ FilteredNow = <<>>

\* ---------------------------------------------------------------------- C7
SameKey(c, d) == c.topic = d.topic /\ c.subtopic = d.subtopic /\ c.key = d.key

\* C7: after the clean-up of init_db no two cards share (topic, subtopic,
\* key), and of every group of cards with one key exactly the card with the
\* lowest id is left.
C7_LowestSurvives ==
  [][op' = "session" =>
       /\ \A c, d \in db' : SameKey(c, d) => c = d
       /\ db' = {c \in db : \A d \in db : SameKey(c, d) => c.id <= d.id}]_vars

C7_Witness ==
  /\ op = "session" /\ removed = <<2>>
  /\ Cardinality(db) = 1 /\ \A c \in db : c.id = 1

\* ---------------------------------------------------------------------- C8
\* C8: a clean-up that directly follows a clean-up reports zero rows removed
\* and leaves the table as the first one left it.
C8_Idempotent ==
  [][(op = "session" /\ op' = "session") =>
       (removed'[Len(removed')] = 0 /\ db' = db)]_vars

C8_Witness ==
  /\ op = "session" /\ Len(removed) = 2
  /\ removed[1] = 2 /\ removed[2] = 0

\* ---------------------------------------------------------------------- C9
\* C9: however the statements of two sessions that mark cards interleave, no
\* increment is lost: the connection always holds, for every card, its
\* initial counters plus the marks executed on it, and once every handler
\* has committed the stored table holds them too.
C9_NoLostUpdate ==
  /\ \A c \in pending :
       /\ c.success = Row(ConcStore, c.id).success + nRight[c.id]
       /\ c.failure = Row(ConcStore, c.id).failure + nWrong[c.id]
  /\ (\A s \in Sessions : spc[s] \in {"idle", "clear"}) => db = pending

\* both sessions have run their UPDATE on card 1 and neither has committed
C9_Witness ==
  /\ \A s \in Sessions :
       spc[s] = "commit" /\ scard[s].id = 1 /\ skind[s] = "right"
  /\ Row(pending, 1).success = 2 /\ Row(db, 1).success = 0

\* --------------------------------------------------------------------- C10
\* C10 (as claimed): an operation on the store that fails leaves the table
\* as it was before the operation began.
C10_Claimed == [][result' = "error" => db' = db]_vars

\* --------------------------------------------------------------------- C11
\* C11 (as claimed): a markCorrect or markIncorrect whose UPDATE targets an
\* id the table does not hold (so that no row changes) ends in an error the
\* learner is shown, never as an operation that reports success.
C11_Claimed ==
  [][(op' \in {"markCorrect", "markIncorrect"} /\ db' = db)
       => result' = "error"]_vars

\* --------------------------------------------------------------------- C12
\* lines of the batch with exactly one separator, in order
WellFormed(lines) == SelectSeq(lines, LAMBDA l : Len(l) = 2)

\* C12: bulkCreate checks each well-formed row, in order, against the table
\* as the earlier rows of the batch left it: a row whose (active topic,
\* active subtopic, question) is in the table before the batch or in an
\* earlier row is skipped and counted in skipped, every other row is
\* inserted once with its answer and counted in added, added + skipped is the
\* number of well-formed rows, and no key gains a second card.
C12_BulkCreate ==
  [][op' = "bulkCreate" =>
       LET wf  == WellFormed(batch')
           t   == active_topic
           s   == active_subtopic
           dup == {i \in 1..Len(wf) :
                     \/ CountKey(db, t, s, wf[i][1]) > 0
                     \/ \E j \in 1..(i - 1) : wf[j][1] = wf[i][1]}
       IN  /\ skipped' = Cardinality(dup)
           /\ added' = Len(wf) - Cardinality(dup)
           /\ added' + skipped' = Len(wf)
           /\ db \subseteq db'
           /\ Cardinality(db') = Cardinality(db) + added'
           /\ \A i \in 1..Len(wf) :
                 /\ CountKey(db', t, s, wf[i][1])
                      = Max(CountKey(db, t, s, wf[i][1]), 1)
                 /\ i \notin dup =>
                      \E c \in db' \ db :
                        /\ c.topic = t /\ c.subtopic = s
                        /\ c.key = wf[i][1] /\ c.value = wf[i][2]
                        /\ c.success = 0 /\ c.failure = 0 /\ c.bookmarked = 0
           /\ \A c \in db' \ db :
                 \E i \in 1..Len(wf) : i \notin dup /\ c.key = wf[i][1]]_vars

\* a batch whose second row repeats the first: one card added, one skipped
C12_Witness ==
  /\ op = "bulkCreate" /\ Len(batch) = 2 /\ batch[1] = batch[2]
  /\ added = 1 /\ skipped = 1

\* --------------------------------------------------------------------- C13
\* the (topic, subtopic) whose "Yes, Delete" the step confirmed
Deleted == confirm_delete \ confirm_delete'

\* C13: deleteBySubtopic(topic, subtopic) removes exactly the cards whose
\* topic and subtopic both match and leaves every other card as it was; the
\* same call repeated on the table it left matches no row and removes none.
C13_DeleteBySubtopic ==
  [][op' = "deleteBySubtopic" =>
       \E u \in Deleted :
         /\ Deleted = {u}
         /\ db' \subseteq db
         /\ db \ db' = {c \in db : c.topic = u[1] /\ c.subtopic = u[2]}
         /\ Cardinality(db \ db') = CountSub(db, u[1], u[2])
         /\ CountSub(db', u[1], u[2]) = 0
         /\ DeleteSub(db', u[1], u[2]) = db']_vars

\* a delete that removed a subtopic and left the card of another one
C13_Witness ==
  /\ op = "deleteBySubtopic" /\ seq = 2 /\ Cardinality(db) = 1

\* --------------------------------------------------------------------- C14
\* C14: for a filtered set of size n, once card_index has been advanced n
\* times over the same filtered set with no regeneration of card_order in
\* between, the card rendered is the card rendered before those n advances.
C14_CursorWrap ==
  LET n == Len(FilteredNow)
  IN  (shown # NoCard /\ Len(trail) > n)
        => trail[Len(trail)] = trail[Len(trail) - n]

\* two advances over a set of two cards, each of the two cards watched
C14_Witness ==
  /\ shown # NoCard /\ Len(FilteredNow) = 2 /\ Len(trail) = 3
  /\ trail[1] # trail[2] /\ card_index = 2

\* --------------------------------------------------------------------- C15
\* C15 (as claimed): in every step, the success and failure counts of every
\* card the table keeps are non-negative and not lower than before the step,
\* unless the step is a resetCounters on the card's (topic, subtopic), which
\* leaves both at 0.
C15_Claimed ==
  [][\A c \in db : \A d \in db' :
        d.id = c.id =>
          /\ d.success >= 0 /\ d.failure >= 0
          /\ (d.success < c.success \/ d.failure < c.failure) =>
               /\ op' = "resetCounters"
               /\ c.topic = active_topic /\ c.subtopic = active_subtopic
               /\ d.success = 0 /\ d.failure = 0]_vars

\* --------------------------------------------------------------------- C16
\* C16 (as claimed): a markCorrect, markIncorrect or toggleBookmark changes
\* the card that was rendered when the button was pressed and no field of
\* any other card, also when the pass of the click loads a newer frame or
\* regenerates card_order.
C16_Claimed ==
  [][op' \in {"markCorrect", "markIncorrect", "toggleBookmark"} =>
       /\ shown \in Ids(db)
       /\ \A c \in db : c.id # shown => c \in db'
       /\ Row(db', shown) # Row(db, shown)]_vars

====
